---- MODULE Spec2Model ----
(***************************************************************************)
(* Traffic-shaping orchestrator of mdmelo/trafficshaper (src/app.py).      *)
(*                                                                         *)
(* The kernel's traffic-control state (qdiscs, classes, filters of each    *)
(* interface and of the shared redirect device ifb0) is the variable kern. *)
(* Every run_cmd / os.system call of the handlers is one step of a request *)
(* process; proc holds each request's position and local variables.        *)
(***************************************************************************)
EXTENDS Integers, Sequences, FiniteSets, TLC

VARIABLES kern, proc, fails, lastOp

vars == <<kern, proc, fails, lastOp>>

(***************************************************************************)
(* Bounds of the model.                                                    *)
(***************************************************************************)
\* How many commands may fail for a reason the kernel state does not explain
\* (a simulated command failure), over a whole behaviour.
MaxFail == 1

\* The longest filter output, in words, the reader is tried on for itself.
MaxWords == 4

Procs == {1, 2}
Ifaces == {"eth0", "lo"}

\* A form field the request does not carry.
Absent == "<absent>"
\* Python's None, as request.form.get returns it for a missing key.
None == "<None>"

(***************************************************************************)
(* The apply forms the requests are drawn from.                            *)
(***************************************************************************)
MkForm(r, l, d, dl, pr) ==
    [rate |-> r, loss |-> l, duplicate |-> d, delay |-> dl, protocol |-> pr]

Forms ==
    { MkForm("10mbit", "1", "2", Absent, "tcp"),    \* tests/test_integration.py:87
      MkForm("1mbit", "0", "0", "20", "all"),       \* tests/test_integration.py:123
      MkForm("1mbit", "1", "0", "0", "udp"),
      MkForm("1mbit", Absent, Absent, Absent, "udp"),
      MkForm("", "1", "2", "0", "tcp"),
      MkForm(Absent, "0", "0", "0", "all") }

(***************************************************************************)
(* Python conversions (index and apply_limit).                             *)
(***************************************************************************)
\* request.form.get(key, default)
FormGet(form, key, default) ==
    IF form[key] = Absent THEN default ELSE form[key]

\* float(s) raises ValueError unless s is numeric.
FloatOk(s) == s \in {"0", "1", "2", "20"}

\* float(s), for numeric s.
Float(s) ==
    CASE s = "0" -> 0
      [] s = "1" -> 1
      [] s = "2" -> 2
      [] s = "20" -> 20
      [] OTHER -> 0

\* f"{x}" of a float: 1.0 is written "1.0".
FloatStr(x) ==
    CASE x = 0 -> "0.0"
      [] x = 1 -> "1.0"
      [] x = 2 -> "2.0"
      [] x = 20 -> "20.0"
      [] OTHER -> "?"

\* f"{rate}" of the rate as index passes it: None is written "None".
RateStr(rate) == IF rate = None THEN "None" ELSE rate

(***************************************************************************)
(* The kernel side: what tc and ip do with the commands of src/app.py.     *)
(***************************************************************************)
\* tc's reading of a rate argument: a number with a unit.
TcRateOk(s) == s \in {"10mbit", "1mbit", "1000mbit"}

\* tc's reading of a number written by FloatStr.
TcNum(s) ==
    CASE s = "1.0" -> 1
      [] s = "2.0" -> 2
      [] s = "20.0" -> 20
      [] OTHER -> 0

NoTree == [root |-> FALSE, classes |-> {}, netem |-> <<>>, filters |-> <<>>]

CleanDev == [tree |-> NoTree, ingress |-> FALSE, ingFilters |-> <<>>]

NoIfb == [exists |-> FALSE, up |-> FALSE, tree |-> NoTree]

\* The result of one command: whether it exited 0, and the kernel state after.
Res(ok, k) == [ok |-> ok, k |-> k]

HasClass(t, id) == \E c \in t.classes : c.id = id

SetTree(k, dev, t) ==
    IF dev = "ifb0"
    THEN [k EXCEPT !.ifb.tree = t]
    ELSE [k EXCEPT !.eg[dev].tree = t]

DevExists(k, dev) == IF dev = "ifb0" THEN k.ifb.exists ELSE dev \in Ifaces

TreeOf(k, dev) == IF dev = "ifb0" THEN k.ifb.tree ELSE k.eg[dev].tree

\* tc qdisc add dev <dev> root handle <h>: htb default 30
TcQdiscAddRoot(k, dev) ==
    IF DevExists(k, dev) /\ ~TreeOf(k, dev).root
    THEN Res(TRUE, SetTree(k, dev, [TreeOf(k, dev) EXCEPT !.root = TRUE]))
    ELSE Res(FALSE, k)

\* tc class add dev <dev> parent <parent> classid <id> htb rate <rate>
\* (parent "root" stands for the qdisc handle 1: or 2:)
TcClassAdd(k, dev, parent, id, rate) ==
    LET t == TreeOf(k, dev) IN
    IF /\ DevExists(k, dev)
       /\ t.root
       /\ TcRateOk(rate)
       /\ (parent = "root" \/ HasClass(t, parent))
       /\ ~HasClass(t, id)
    THEN Res(TRUE, SetTree(k, dev,
             [t EXCEPT !.classes = @ \cup {[id |-> id, parent |-> parent, rate |-> rate]}]))
    ELSE Res(FALSE, k)

\* tc qdisc add dev <dev> parent <cls> handle 10: netem [delay Dms] [loss L%] [duplicate D%]
\* (an omitted parameter is passed as "")
TcNetemAdd(k, dev, cls, delay, loss, duplicate) ==
    LET t == TreeOf(k, dev) IN
    IF DevExists(k, dev) /\ t.root /\ HasClass(t, cls) /\ t.netem = <<>>
    THEN Res(TRUE, SetTree(k, dev,
             [t EXCEPT !.netem = << [parent |-> cls,
                                     delay |-> TcNum(delay),
                                     loss |-> TcNum(loss),
                                     duplicate |-> TcNum(duplicate)] >>]))
    ELSE Res(FALSE, k)

\* tc filter add dev <dev> protocol ip parent <h>:0 prio <prio> u32 match ... flowid <flowid>
\* match is the IP protocol number matched, 0 for "match u32 0 0" (everything).
\* u32 keeps every filter added, also a second one equal to the first.
TcFilterAdd(k, dev, prio, match, flowid) ==
    LET t == TreeOf(k, dev) IN
    IF DevExists(k, dev) /\ t.root
    THEN Res(TRUE, SetTree(k, dev,
             [t EXCEPT !.filters = Append(@, [prio |-> prio, match |-> match, flowid |-> flowid])]))
    ELSE Res(FALSE, k)

\* A faulty variant of TcQdiscDelRoot: the root qdisc of every interface goes.
TcQdiscDelRoot_every(k, dev) ==
    IF DevExists(k, dev) /\ TreeOf(k, dev).root
    THEN Res(TRUE, [SetTree(k, dev, NoTree) EXCEPT
                        !.eg = [i \in Ifaces |-> [@[i] EXCEPT !.tree = NoTree]]])
    ELSE Res(FALSE, k)

\* tc qdisc del dev <dev> root: the qdisc goes with its classes, child qdiscs and filters.
TcQdiscDelRoot(k, dev) ==
    IF DevExists(k, dev) /\ TreeOf(k, dev).root
    THEN Res(TRUE, SetTree(k, dev, NoTree))
    ELSE Res(FALSE, k)

\* tc qdisc add dev <iface> handle ffff: ingress
TcIngressAdd(k, iface) ==
    IF ~k.eg[iface].ingress
    THEN Res(TRUE, [k EXCEPT !.eg[iface].ingress = TRUE])
    ELSE Res(FALSE, k)

\* tc filter add dev <iface> parent ffff: ... action mirred egress redirect dev ifb0
TcIngressFilterAdd(k, iface, match) ==
    IF k.eg[iface].ingress /\ k.ifb.exists
    THEN Res(TRUE, [k EXCEPT !.eg[iface].ingFilters =
                        Append(@, [match |-> match, redirect |-> "ifb0"])])
    ELSE Res(FALSE, k)

\* tc filter del dev <iface> parent ffff:
TcIngressFilterDel(k, iface) ==
    IF k.eg[iface].ingress
    THEN Res(TRUE, [k EXCEPT !.eg[iface].ingFilters = <<>>])
    ELSE Res(FALSE, k)

\* tc qdisc del dev <iface> ingress
TcIngressDel(k, iface) ==
    IF k.eg[iface].ingress
    THEN Res(TRUE, [k EXCEPT !.eg[iface].ingress = FALSE, !.eg[iface].ingFilters = <<>>])
    ELSE Res(FALSE, k)

\* modprobe ifb numifbs=1: loading the module creates ifb0; a loaded module is left alone.
Modprobe(k) ==
    IF k.module
    THEN Res(TRUE, k)
    ELSE Res(TRUE, [k EXCEPT !.module = TRUE,
                             !.ifb = IF k.ifb.exists THEN @ ELSE [NoIfb EXCEPT !.exists = TRUE]])

\* ip link add ifb0 type ifb
IpLinkAdd(k) ==
    IF ~k.ifb.exists
    THEN Res(TRUE, [k EXCEPT !.ifb = [NoIfb EXCEPT !.exists = TRUE]])
    ELSE Res(FALSE, k)

\* ip link set dev ifb0 up / down
IpLinkSet(k, up) ==
    IF k.ifb.exists
    THEN Res(TRUE, [k EXCEPT !.ifb.up = up])
    ELSE Res(FALSE, k)

\* ip link delete ifb0 type ifb
IpLinkDelete(k) ==
    IF k.ifb.exists
    THEN Res(TRUE, [k EXCEPT !.ifb = NoIfb])
    ELSE Res(FALSE, k)

\* A faulty variant of IngressShown: the grep never matches.
IngressShown_never(k, iface) == FALSE

\* os.system("tc qdisc show dev <iface> | grep ingress > /dev/null") == 0
IngressShown(k, iface) == k.eg[iface].ingress

\* os.system("ip link show ifb0 > /dev/null 2>&1") == 0
IfbShown(k) == k.ifb.exists

(***************************************************************************)
(* Request processes.                                                      *)
(***************************************************************************)
NoForm == MkForm(Absent, Absent, Absent, Absent, Absent)

NoConfig == [rate |-> "", loss |-> "", duplicate |-> "", protocol |-> "", delay |-> ""]

Idle ==
    [pc |-> "idle", op |-> "none", iface |-> "", form |-> NoForm, ret |-> "",
     rate |-> "", loss |-> 0, duplicate |-> 0, delay |-> 0, protocol |-> "",
     error_msg |-> <<>>, output |-> <<>>,
     ifbSeen |-> FALSE, log |-> <<>>, config |-> NoConfig,
     qdisc_output |-> <<>>, class_output |-> <<>>, filter_output |-> <<>>,
     raised |-> FALSE, overlap |-> FALSE]

Init ==
    /\ kern = [eg |-> [i \in Ifaces |-> CleanDev], ifb |-> NoIfb, module |-> FALSE]
    /\ proc = [p \in Procs |-> Idle]
    /\ fails = 0
    /\ lastOp = [i \in Ifaces |-> [what |-> "none", failed |-> ""]]

\* Requests are served one at a time (spec section 5: single-threaded per request).
CanStart(p) == \A q \in Procs : proc[q].pc = "idle"

\* run_cmd(cmd): returncode == 0. A command line ending in "|| true" exits 0
\* whatever tc answered.
run_cmd(res, orTrue) == res.ok \/ orTrue

\* Whether the next command may fail for a reason outside the kernel state.
Inject == IF fails < MaxFail THEN {FALSE, TRUE} ELSE {FALSE}

\* A request that has started and still has steps to take.
InFlight(r) == r.pc \notin {"idle", "done"}

\* Process p issues the command of step label, written with the optional
\* parameters args, through run_cmd; res is what the kernel does with it, next
\* the step that follows. The request's log keeps the commands issued, the exit
\* status of the tool (rc) and what run_cmd returned (ok). A request is marked
\* overlap when a command is issued while it and another request are in flight.
IssueArgs(p, label, args, res, orTrue, mayFail, next) ==
    \E inj \in (IF mayFail THEN Inject ELSE {FALSE}) :
        LET r == IF inj THEN Res(FALSE, kern) ELSE res
            others == \E q \in Procs \ {p} : InFlight(proc[q])
        IN
        /\ kern' = r.k
        /\ fails' = IF inj THEN fails + 1 ELSE fails
        /\ proc' = [q \in Procs |->
                       IF q = p
                       THEN [proc[p] EXCEPT !.pc = next,
                                            !.log = Append(@, [cmd |-> label, args |-> args,
                                                               rc |-> r.ok,
                                                               ok |-> run_cmd(r, orTrue)]),
                                            !.overlap = @ \/ others]
                       ELSE IF InFlight(proc[q])
                            THEN [proc[q] EXCEPT !.overlap = TRUE]
                            ELSE proc[q]]
        /\ UNCHANGED lastOp

Issue(p, label, res, orTrue, mayFail, next) ==
    IssueArgs(p, label, <<>>, res, orTrue, mayFail, next)

\* A step that issues no command.
Goto(p, next) ==
    /\ proc' = [proc EXCEPT ![p].pc = next]
    /\ UNCHANGED <<kern, fails, lastOp>>

(***************************************************************************)
(* delete_limit(iface), src/app.py:309-320.                                *)
(***************************************************************************)
\* Where delete_limit returns to: index (line 386), apply_limit (237), reset (335).
DelReturn(ret) ==
    CASE ret = "index" -> "convert"
      [] ret = "apply_limit" -> "add_root"
      [] OTHER -> "reset_output"

\* A faulty variant of delete_limit_root: the root scheduler is left in place.
delete_limit_root_skipped(p) ==
    /\ proc[p].pc = "del_root"
    /\ Goto(p, "del_chk_ingress")

delete_limit_root(p) ==
    /\ proc[p].pc = "del_root"
    /\ Issue(p, "del_root", TcQdiscDelRoot(kern, proc[p].iface), TRUE, FALSE, "del_chk_ingress")

\* A faulty variant of delete_limit_check_ingress: the test of line 313 never
\* finds the capture point, so it is never removed.
delete_limit_check_ingress_never(p) ==
    /\ proc[p].pc = "del_chk_ingress"
    /\ Goto(p, "del_chk_ifb")

delete_limit_check_ingress(p) ==
    /\ proc[p].pc = "del_chk_ingress"
    /\ Goto(p, IF IngressShown(kern, proc[p].iface) THEN "del_ing_filter" ELSE "del_chk_ifb")

delete_limit_ingress_filter(p) ==
    /\ proc[p].pc = "del_ing_filter"
    /\ Issue(p, "del_ing_filter", TcIngressFilterDel(kern, proc[p].iface), TRUE, FALSE, "del_ingress")

delete_limit_ingress(p) ==
    /\ proc[p].pc = "del_ingress"
    /\ Issue(p, "del_ingress", TcIngressDel(kern, proc[p].iface), TRUE, FALSE, "del_chk_ifb")

\* A faulty variant of delete_limit_check_ifb: the commands of lines 318-320 are
\* issued whatever the test of line 317 found.
delete_limit_check_ifb_unconditional(p) ==
    /\ proc[p].pc = "del_chk_ifb"
    /\ Goto(p, "del_ifb_root")

delete_limit_check_ifb(p) ==
    /\ proc[p].pc = "del_chk_ifb"
    /\ Goto(p, IF IfbShown(kern) THEN "del_ifb_root" ELSE DelReturn(proc[p].ret))

delete_limit_ifb_root(p) ==
    /\ proc[p].pc = "del_ifb_root"
    /\ Issue(p, "del_ifb_root", TcQdiscDelRoot(kern, "ifb0"), TRUE, FALSE, "del_ifb_down")

delete_limit_ifb_down(p) ==
    /\ proc[p].pc = "del_ifb_down"
    /\ Issue(p, "del_ifb_down", IpLinkSet(kern, FALSE), TRUE, FALSE, "del_ifb_link")

delete_limit_ifb_link(p) ==
    /\ proc[p].pc = "del_ifb_link"
    /\ Issue(p, "del_ifb_link", IpLinkDelete(kern), TRUE, FALSE, DelReturn(proc[p].ret))

delete_limit(p) ==
    \/ delete_limit_root(p)
    \/ delete_limit_check_ingress(p)
    \/ delete_limit_ingress_filter(p)
    \/ delete_limit_ingress(p)
    \/ delete_limit_check_ifb(p)
    \/ delete_limit_ifb_root(p)
    \/ delete_limit_ifb_down(p)
    \/ delete_limit_ifb_link(p)

(***************************************************************************)
(* reset(), src/app.py:331-342.                                            *)
(***************************************************************************)
\* Lines 333-335: the request arrives and delete_limit(iface) is called.
StartReset(p, i) ==
    /\ proc[p].pc = "idle"
    /\ proc' = [proc EXCEPT ![p] = [Idle EXCEPT !.pc = "del_root", !.op = "reset",
                                                !.iface = i, !.ret = "reset"]]
    /\ UNCHANGED <<kern, fails, lastOp>>

reset(p, i) == CanStart(p) /\ StartReset(p, i)

\* A faulty variant of reset_output: the success message is written only when
\* every delete command exited 0 (the test left commented out at lines 337-339).
reset_output_if_removed(p) ==
    /\ proc[p].pc = "reset_output"
    /\ proc' = [proc EXCEPT ![p].pc = "done",
                            ![p].output =
                                IF \A n \in 1..Len(proc[p].log) : proc[p].log[n].rc
                                THEN <<"Traffic shaping reset on", proc[p].iface>>
                                ELSE <<"No custom traffic shaping was applied">>]
    /\ UNCHANGED <<kern, fails, lastOp>>

\* Lines 340-342: the message is written whatever delete_limit did.
reset_output(p) ==
    /\ proc[p].pc = "reset_output"
    /\ proc' = [proc EXCEPT ![p].pc = "done",
                            ![p].output = <<"Traffic shaping reset on", proc[p].iface>>]
    /\ UNCHANGED <<kern, fails, lastOp>>

(***************************************************************************)
(* index(), the apply branch, src/app.py:371-414.                          *)
(***************************************************************************)
\* Lines 373-386: the form is read and delete_limit(iface) is called.
StartApply(p, i, f) ==
    /\ proc[p].pc = "idle"
    /\ proc' = [proc EXCEPT ![p] = [Idle EXCEPT !.pc = "del_root", !.op = "apply",
                                                !.iface = i, !.form = f, !.ret = "index",
                                                !.rate = FormGet(f, "rate", None),
                                                !.protocol = FormGet(f, "protocol", "all")]]
    /\ UNCHANGED <<kern, fails, lastOp>>

index_apply(p, i, f) == CanStart(p) /\ StartApply(p, i, f)

\* Line 389: the arguments float(loss), float(duplicate), float(delay) are evaluated
\* before apply_limit is called; a ValueError goes to the except branch of line 391.
index_convert(p) ==
    LET f == proc[p].form
        loss == FormGet(f, "loss", "")
        duplicate == FormGet(f, "duplicate", "")
        delay == FormGet(f, "delay", "0")
    IN
    /\ proc[p].pc = "convert"
    /\ IF FloatOk(loss) /\ FloatOk(duplicate) /\ FloatOk(delay)
       THEN proc' = [proc EXCEPT ![p].pc = "del_root", ![p].ret = "apply_limit",
                                 ![p].loss = Float(loss),
                                 ![p].duplicate = Float(duplicate),
                                 ![p].delay = Float(delay)]
       ELSE proc' = [proc EXCEPT ![p].pc = "extra_filter",
                                 ![p].error_msg = <<"Error applying settings to interface", proc[p].iface>>]
    /\ UNCHANGED <<kern, fails, lastOp>>

\* str.lower() of the protocol values a form carries.
Lower(s) ==
    CASE s = "TCP" -> "tcp"
      [] s = "UDP" -> "udp"
      [] s = "ALL" -> "all"
      [] OTHER -> s

\* Lines 403-404: "6" for tcp, "17" otherwise.
protocol_number(protocol) == IF Lower(protocol) = "tcp" THEN 6 ELSE 17

\* Lines 403-405, run after the try block whatever its outcome.
index_extra_filter(p) ==
    /\ proc[p].pc = "extra_filter"
    /\ IF Lower(proc[p].protocol) \in {"tcp", "udp"}
       THEN Issue(p, "extra_filter",
                  TcFilterAdd(kern, proc[p].iface, 1, protocol_number(proc[p].protocol), "1:11"),
                  FALSE, TRUE, "done")
       ELSE Goto(p, "done")

(***************************************************************************)
(* apply_limit(iface, rate, loss, duplicate, protocol, delay),             *)
(* src/app.py:235-306. Its first statement is delete_limit(iface).         *)
(***************************************************************************)
\* A faulty variant of apply_limit_root: the child classes are created next,
\* without the root-bounding class 1:1 they name as parent.
apply_limit_root_then_children(p) ==
    /\ proc[p].pc = "add_root"
    /\ Issue(p, "add_root", TcQdiscAddRoot(kern, proc[p].iface), FALSE, TRUE, "add_class_10")

apply_limit_root(p) ==
    /\ proc[p].pc = "add_root"
    /\ Issue(p, "add_root", TcQdiscAddRoot(kern, proc[p].iface), FALSE, TRUE, "add_class_1")

\* A faulty variant of apply_limit_class_1: a refused command is issued again.
apply_limit_class_1_retry(p) ==
    LET res == TcClassAdd(kern, proc[p].iface, "root", "1:1", RateStr(proc[p].rate)) IN
    /\ proc[p].pc = "add_class_1"
    /\ Issue(p, "add_class_1", res, FALSE, TRUE,
             IF res.ok THEN "add_class_10" ELSE "add_class_1")

apply_limit_class_1(p) ==
    /\ proc[p].pc = "add_class_1"
    /\ Issue(p, "add_class_1",
             TcClassAdd(kern, proc[p].iface, "root", "1:1", RateStr(proc[p].rate)),
             FALSE, TRUE, "add_class_10")

\* A faulty variant of apply_limit_class_10: when tc refuses the class,
\* apply_limit gives up and returns to index.
apply_limit_class_10_gives_up(p) ==
    LET res == TcClassAdd(kern, proc[p].iface, "1:1", "1:10", RateStr(proc[p].rate)) IN
    /\ proc[p].pc = "add_class_10"
    /\ Issue(p, "add_class_10", res, FALSE, TRUE,
             IF res.ok THEN "add_class_30" ELSE "extra_filter")

apply_limit_class_10(p) ==
    /\ proc[p].pc = "add_class_10"
    /\ Issue(p, "add_class_10",
             TcClassAdd(kern, proc[p].iface, "1:1", "1:10", RateStr(proc[p].rate)),
             FALSE, TRUE, "add_class_30")

apply_limit_class_30(p) ==
    /\ proc[p].pc = "add_class_30"
    /\ Issue(p, "add_class_30",
             TcClassAdd(kern, proc[p].iface, "1:1", "1:30", "1000mbit"),
             FALSE, TRUE, "add_class_11")

\* A faulty variant of apply_limit_class_11: the treated class is created
\* with the passthrough rate.
apply_limit_class_11_unbounded(p) ==
    /\ proc[p].pc = "add_class_11"
    /\ Issue(p, "add_class_11",
             TcClassAdd(kern, proc[p].iface, "1:1", "1:11", "1000mbit"),
             FALSE, TRUE, "add_netem")

apply_limit_class_11(p) ==
    /\ proc[p].pc = "add_class_11"
    /\ Issue(p, "add_class_11",
             TcClassAdd(kern, proc[p].iface, "1:1", "1:11", RateStr(proc[p].rate)),
             FALSE, TRUE, "add_netem")

\* A faulty variant of NetemArg: the parameter is written whatever its value.
NetemArg_always(x) == FloatStr(x)

\* Lines 259-264: a parameter is written only if its value is > 0 ("" stands
\* for a parameter the command does not carry).
NetemArg(x) == IF x > 0 THEN FloatStr(x) ELSE ""

\* Lines 258-264: the optional parameters of the netem command.
NetemCmd(delay, loss, duplicate) ==
    [delay |-> NetemArg(delay), loss |-> NetemArg(loss), duplicate |-> NetemArg(duplicate)]

apply_limit_netem(p) ==
    LET cmd == NetemCmd(proc[p].delay, proc[p].loss, proc[p].duplicate) IN
    /\ proc[p].pc = "add_netem"
    /\ IssueArgs(p, "add_netem", cmd,
                 TcNetemAdd(kern, proc[p].iface, "1:11", cmd.delay, cmd.loss, cmd.duplicate),
                 FALSE, TRUE, "add_filter")

\* Lines 269 and 273.
proto_num(protocol) == IF protocol = "udp" THEN 17 ELSE 6

\* Lines 268-277 (dev iface, treated 1:11) and 302-306 (dev ifb0, treated 2:10):
\* the first filter command of the protocol branch.
FirstFilter(k, dev, protocol, treated) ==
    IF protocol \in {"udp", "tcp"}
    THEN TcFilterAdd(k, dev, 1, proto_num(protocol), treated)
    ELSE TcFilterAdd(k, dev, 1, 0, treated)

\* A faulty variant of HasCatchAll: the catch-all is installed for every protocol.
HasCatchAll_always(protocol) == TRUE

\* Whether the protocol branch issues a second filter command (the catch-all).
HasCatchAll(protocol) == protocol \in {"udp", "tcp"}

apply_limit_filter(p) ==
    /\ proc[p].pc = "add_filter"
    /\ Issue(p, "add_filter", FirstFilter(kern, proc[p].iface, proc[p].protocol, "1:11"),
             FALSE, TRUE,
             IF HasCatchAll(proc[p].protocol) THEN "add_filter_default" ELSE "modprobe")

apply_limit_filter_default(p) ==
    /\ proc[p].pc = "add_filter_default"
    /\ Issue(p, "add_filter_default", TcFilterAdd(kern, proc[p].iface, 2, 0, "1:30"),
             FALSE, TRUE, "modprobe")

apply_limit_modprobe(p) ==
    /\ proc[p].pc = "modprobe"
    /\ Issue(p, "modprobe", Modprobe(kern), FALSE, TRUE, "chk_ifb")

\* A faulty variant of apply_limit_check_ifb: the device is created whatever the
\* existence check found.
apply_limit_check_ifb_always_add(p) ==
    /\ proc[p].pc = "chk_ifb"
    /\ proc' = [proc EXCEPT ![p].pc = "link_add", ![p].ifbSeen = IfbShown(kern)]
    /\ UNCHANGED <<kern, fails, lastOp>>

\* Line 281: the existence check decides whether line 282 runs.
apply_limit_check_ifb(p) ==
    /\ proc[p].pc = "chk_ifb"
    /\ proc' = [proc EXCEPT ![p].pc = IF IfbShown(kern) THEN "link_up" ELSE "link_add",
                            ![p].ifbSeen = IfbShown(kern)]
    /\ UNCHANGED <<kern, fails, lastOp>>

apply_limit_link_add(p) ==
    /\ proc[p].pc = "link_add"
    /\ Issue(p, "link_add", IpLinkAdd(kern), FALSE, TRUE, "link_up")

apply_limit_link_up(p) ==
    /\ proc[p].pc = "link_up"
    /\ Issue(p, "link_up", IpLinkSet(kern, TRUE), FALSE, TRUE, "add_ingress")

apply_limit_ingress(p) ==
    /\ proc[p].pc = "add_ingress"
    /\ Issue(p, "add_ingress", TcIngressAdd(kern, proc[p].iface), TRUE, TRUE, "add_ing_filter")

\* Lines 290-295: the protocol number matched by the redirect rule, 0 for everything.
IngressMatch(protocol) ==
    CASE protocol = "udp" -> 17
      [] protocol = "tcp" -> 6
      [] OTHER -> 0

apply_limit_ingress_filter(p) ==
    /\ proc[p].pc = "add_ing_filter"
    /\ Issue(p, "add_ing_filter",
             TcIngressFilterAdd(kern, proc[p].iface, IngressMatch(proc[p].protocol)),
             FALSE, TRUE, "ifb_root")

apply_limit_ifb_root(p) ==
    /\ proc[p].pc = "ifb_root"
    /\ Issue(p, "ifb_root", TcQdiscAddRoot(kern, "ifb0"), TRUE, TRUE, "ifb_class_1")

apply_limit_ifb_class_1(p) ==
    /\ proc[p].pc = "ifb_class_1"
    /\ Issue(p, "ifb_class_1", TcClassAdd(kern, "ifb0", "root", "2:1", RateStr(proc[p].rate)),
             FALSE, TRUE, "ifb_class_10")

apply_limit_ifb_class_10(p) ==
    /\ proc[p].pc = "ifb_class_10"
    /\ Issue(p, "ifb_class_10", TcClassAdd(kern, "ifb0", "2:1", "2:10", RateStr(proc[p].rate)),
             FALSE, TRUE, "ifb_class_30")

apply_limit_ifb_class_30(p) ==
    /\ proc[p].pc = "ifb_class_30"
    /\ Issue(p, "ifb_class_30", TcClassAdd(kern, "ifb0", "2:1", "2:30", "1000mbit"),
             FALSE, TRUE, "ifb_filter")

\* A faulty variant of apply_limit_ifb_filter: the rule names class 2:11, the
\* mirror of the egress side's treated class, which nothing creates on ifb0.
apply_limit_ifb_filter_mirrored(p) ==
    /\ proc[p].pc = "ifb_filter"
    /\ Issue(p, "ifb_filter", FirstFilter(kern, "ifb0", proc[p].protocol, "2:11"),
             FALSE, TRUE,
             IF HasCatchAll(proc[p].protocol) THEN "ifb_filter_default" ELSE "extra_filter")

apply_limit_ifb_filter(p) ==
    /\ proc[p].pc = "ifb_filter"
    /\ Issue(p, "ifb_filter", FirstFilter(kern, "ifb0", proc[p].protocol, "2:10"),
             FALSE, TRUE,
             IF HasCatchAll(proc[p].protocol) THEN "ifb_filter_default" ELSE "extra_filter")

apply_limit_ifb_filter_default(p) ==
    /\ proc[p].pc = "ifb_filter_default"
    /\ Issue(p, "ifb_filter_default", TcFilterAdd(kern, "ifb0", 2, 0, "2:30"),
             FALSE, TRUE, "extra_filter")

apply_limit(p) ==
    \/ apply_limit_root(p)
    \/ apply_limit_class_1(p)
    \/ apply_limit_class_10(p)
    \/ apply_limit_class_30(p)
    \/ apply_limit_class_11(p)
    \/ apply_limit_netem(p)
    \/ apply_limit_filter(p)
    \/ apply_limit_filter_default(p)
    \/ apply_limit_modprobe(p)
    \/ apply_limit_check_ifb(p)
    \/ apply_limit_link_add(p)
    \/ apply_limit_link_up(p)
    \/ apply_limit_ingress(p)
    \/ apply_limit_ingress_filter(p)
    \/ apply_limit_ifb_root(p)
    \/ apply_limit_ifb_class_1(p)
    \/ apply_limit_ifb_class_10(p)
    \/ apply_limit_ifb_class_30(p)
    \/ apply_limit_ifb_filter(p)
    \/ apply_limit_ifb_filter_default(p)

(***************************************************************************)
(* What tc prints (the format of the example at src/app.py:28-38), and     *)
(* parse_tc_config(iface), src/app.py:140-212, which reads it back.        *)
(* An output is the sequence of its words.                                 *)
(***************************************************************************)
\* tc prints a rate in its own units: 10mbit as 10Mbit, 1000mbit as 1Gbit.
TcRate(rate) ==
    CASE rate = "10mbit" -> "10Mbit"
      [] rate = "1mbit" -> "1Mbit"
      [] rate = "1000mbit" -> "1Gbit"
      [] OTHER -> rate

\* tc prints a netem probability as "<n>%".
TcPct(n) ==
    CASE n = 1 -> "1%"
      [] n = 2 -> "2%"
      [] n = 20 -> "20%"
      [] OTHER -> "0%"

\* tc prints a netem delay below a second as "<n>ms".
TcTime(n) ==
    CASE n = 1 -> "1ms"
      [] n = 2 -> "2ms"
      [] n = 20 -> "20ms"
      [] OTHER -> "0us"

\* tc prints a u32 match as value/mask and offset: the IP protocol byte is at 8.
U32Match(match) ==
    CASE match = 6 -> <<"match", "00060000/00ff0000", "at", "8">>
      [] match = 17 -> <<"match", "00110000/00ff0000", "at", "8">>
      [] OTHER -> <<"match", "00000000/00000000", "at", "0">>

NetemWords(ne) ==
    <<"qdisc", "netem", "10:", "parent", ne.parent, "limit", "1000">>
    \o (IF ne.delay > 0 THEN <<"delay", TcTime(ne.delay)>> ELSE <<>>)
    \o (IF ne.loss > 0 THEN <<"loss", TcPct(ne.loss)>> ELSE <<>>)
    \o (IF ne.duplicate > 0 THEN <<"duplicate", TcPct(ne.duplicate)>> ELSE <<>>)

\* stat_cmd("tc qdisc show dev <iface>")
QdiscShow(k, iface) ==
    LET d == k.eg[iface] IN
    (IF d.tree.root
     THEN <<"qdisc", "htb", "1:", "root", "refcnt", "2", "r2q", "10", "default", "0x30">>
     ELSE <<"qdisc", "noqueue", "0:", "root", "refcnt", "2">>)
    \o (IF d.tree.netem # <<>> THEN NetemWords(d.tree.netem[1]) ELSE <<>>)
    \o (IF d.ingress THEN <<"qdisc", "ingress", "ffff:", "parent", "ffff:fff1">> ELSE <<>>)

\* The order in which tc lists the classes (src/app.py:31-34).
ClassOrder == <<"1:11", "1:1", "1:10", "1:30">>

ClassWords(c) ==
    <<"class", "htb", c.id>>
    \o (IF c.parent = "root" THEN <<"root">> ELSE <<"parent", c.parent>>)
    \o <<"rate", TcRate(c.rate), "ceil", TcRate(c.rate)>>

RECURSIVE ClassShowFrom(_, _)
ClassShowFrom(t, n) ==
    IF n > Len(ClassOrder)
    THEN <<>>
    ELSE (IF HasClass(t, ClassOrder[n])
          THEN ClassWords(CHOOSE c \in t.classes : c.id = ClassOrder[n])
          ELSE <<>>) \o ClassShowFrom(t, n + 1)

\* stat_cmd("tc class show dev <iface>")
ClassShow(k, iface) == ClassShowFrom(k.eg[iface].tree, 1)

FilterWords(f) ==
    <<"filter", "parent", "1:", "protocol", "ip", "pref", ToString(f.prio), "u32",
      "flowid", f.flowid, "not_in_hw">> \o U32Match(f.match)

RECURSIVE FilterShowFrom(_, _)
FilterShowFrom(fs, n) ==
    IF n > Len(fs) THEN <<>> ELSE FilterWords(fs[n]) \o FilterShowFrom(fs, n + 1)

\* stat_cmd("tc filter show dev <iface>"): the filters of the root qdisc.
FilterShow(k, iface) == FilterShowFrom(k.eg[iface].tree.filters, 1)

\* The group (\d+(\.\d+)?) of a word matching (\d+(\.\d+)?)%, "" when it does not match.
PctGroup(w) ==
    CASE w = "1%" -> "1"
      [] w = "2%" -> "2"
      [] w = "20%" -> "20"
      [] w = "0%" -> "0"
      [] OTHER -> ""

\* The group (\d+) of a word matching (\d+)(?:ms)?, "" when it does not match.
DelayGroup(w) ==
    CASE w = "1ms" -> "1"
      [] w = "2ms" -> "2"
      [] w = "20ms" -> "20"
      [] w = "0us" -> "0"
      [] OTHER -> ""

\* The group a word gives under the pattern of kind: "pct" for (\d+(\.\d+)?)%,
\* "delay" for (\d+)(?:ms)?, "word" for (\S+); "" when the word does not match.
Group(kind, w) ==
    CASE kind = "pct" -> PctGroup(w)
      [] kind = "delay" -> DelayGroup(w)
      [] OTHER -> w

\* re.search(key + " " + pattern, out): the group of the first match, "" for no match.
Search(out, key, kind) ==
    LET hits == {n \in 1..(Len(out) - 1) : out[n] = key /\ Group(kind, out[n + 1]) # ""} IN
    IF hits = {}
    THEN ""
    ELSE Group(kind, out[(CHOOSE n \in hits : \A m \in hits : n <= m) + 1])

\* "<a> <b>" in out
HasPair(out, a, b) == \E n \in 1..(Len(out) - 1) : out[n] = a /\ out[n + 1] = b

\* "<w>" in out. No word tc prints holds 0x06 or 0x11 inside a longer word.
HasWord(out, w) == \E n \in 1..Len(out) : out[n] = w

\* A faulty variant of parse_protocol: the UDP token is looked for first.
parse_protocol_udp_first(filter_output) ==
    IF HasPair(filter_output, "protocol", "ip")
    THEN IF HasWord(filter_output, "0x11") THEN "udp"
         ELSE IF HasWord(filter_output, "0x06") THEN "tcp"
         ELSE ""
    ELSE ""

\* Lines 186-192.
parse_protocol(filter_output) ==
    IF HasPair(filter_output, "protocol", "ip")
    THEN IF HasWord(filter_output, "0x06") THEN "tcp"
         ELSE IF HasWord(filter_output, "0x11") THEN "udp"
         ELSE ""
    ELSE ""

\* Lines 147-193: the record read from the three outputs.
ParseOutputs(qdisc_output, class_output, filter_output) ==
    [rate |-> Search(class_output, "rate", "word"),
     loss |-> Search(qdisc_output, "loss", "pct"),
     duplicate |-> Search(qdisc_output, "duplicate", "pct"),
     protocol |-> parse_protocol(filter_output),
     delay |-> Search(qdisc_output, "delay", "delay")]

\* parse_tc_config(iface) when nothing is raised, on kernel state k.
parse_tc_config(k, iface) ==
    ParseOutputs(QdiscShow(k, iface), ClassShow(k, iface), FilterShow(k, iface))

\* index(), lines 415-435: a GET, or a POST that only selects an interface,
\* shows the policy read from the kernel.
StartShow(p, i) ==
    /\ proc[p].pc = "idle"
    /\ proc' = [proc EXCEPT ![p] = [Idle EXCEPT !.pc = "stat", !.op = "show", !.iface = i]]
    /\ UNCHANGED <<kern, fails, lastOp>>

index_show(p, i) == CanStart(p) /\ StartShow(p, i)

\* Lines 143-145: the three stat_cmd calls. subprocess.run may raise (the shell
\* cannot be started, the output is not text), which the try block catches.
parse_tc_config_stat(p) ==
    /\ proc[p].pc = "stat"
    /\ \E raises \in BOOLEAN :
           IF raises
           THEN proc' = [proc EXCEPT ![p].pc = "parse_except", ![p].raised = TRUE]
           ELSE proc' = [proc EXCEPT ![p].pc = "parse",
                                     ![p].qdisc_output = QdiscShow(kern, proc[p].iface),
                                     ![p].class_output = ClassShow(kern, proc[p].iface),
                                     ![p].filter_output = FilterShow(kern, proc[p].iface)]
    /\ UNCHANGED <<kern, fails, lastOp>>

\* Lines 147-200.
parse_tc_config_parse(p) ==
    /\ proc[p].pc = "parse"
    /\ proc' = [proc EXCEPT ![p].pc = "done",
                            ![p].config = ParseOutputs(proc[p].qdisc_output,
                                                       proc[p].class_output,
                                                       proc[p].filter_output)]
    /\ UNCHANGED <<kern, fails, lastOp>>

\* A faulty variant of parse_tc_config_except: the exception is not caught and
\* the request ends without a record.
parse_tc_config_except_uncaught(p) ==
    /\ proc[p].pc = "parse_except"
    /\ proc' = [proc EXCEPT ![p].pc = "done", ![p].config = [error |-> "raised"]]
    /\ UNCHANGED <<kern, fails, lastOp>>

\* Lines 202-212: any exception gives the record with nothing set.
parse_tc_config_except(p) ==
    /\ proc[p].pc = "parse_except"
    /\ proc' = [proc EXCEPT ![p].pc = "done", ![p].config = NoConfig]
    /\ UNCHANGED <<kern, fails, lastOp>>

(***************************************************************************)
(* The end of a request: the response is rendered and the worker is free.  *)
(***************************************************************************)
\* Whether some command of the builder (apply_limit, or index's own filter
\* command) returned failure from run_cmd.
CmdFailed(r) == \E n \in 1..Len(r.log) : ~r.log[n].ok

\* The first command of the request that run_cmd reported failed, "" if none.
FirstFailed(r) ==
    IF CmdFailed(r)
    THEN r.log[CHOOSE n \in 1..Len(r.log) :
                   ~r.log[n].ok /\ \A m \in 1..(n - 1) : r.log[m].ok].cmd
    ELSE ""

\* How a request ended: what the next request on the interface finds behind it.
Outcome(r) ==
    CASE r.op = "reset" -> "reset"
      [] r.op = "apply" /\ r.error_msg # <<>> -> "apply_rejected"
      [] r.op = "apply" /\ CmdFailed(r) -> "apply_failed"
      [] OTHER -> "apply_ok"

respond(p) ==
    /\ proc[p].pc = "done"
    /\ lastOp' = IF proc[p].op \in {"apply", "reset"}
                 THEN [lastOp EXCEPT ![proc[p].iface] =
                           [what |-> Outcome(proc[p]), failed |-> FirstFailed(proc[p])]]
                 ELSE lastOp
    /\ proc' = [proc EXCEPT ![p] = Idle]
    /\ UNCHANGED <<kern, fails>>

\* The worker serving the requests of a sequential run.
Workers == {1}

Next ==
    \E p \in Workers :
        \/ \E i \in Ifaces : \E f \in Forms : index_apply(p, i, f)
        \/ \E i \in Ifaces : reset(p, i)
        \/ \E i \in Ifaces : index_show(p, i)
        \/ index_convert(p)
        \/ index_extra_filter(p)
        \/ delete_limit(p)
        \/ apply_limit(p)
        \/ reset_output(p)
        \/ parse_tc_config_stat(p)
        \/ parse_tc_config_parse(p)
        \/ parse_tc_config_except(p)
        \/ respond(p)

Spec == Init /\ [][Next]_vars

(***************************************************************************)
(* Vocabulary of the properties.                                           *)
(***************************************************************************)
\* The steps of delete_limit.
DelPcs ==
    {"del_root", "del_chk_ingress", "del_ing_filter", "del_ingress",
     "del_chk_ifb", "del_ifb_root", "del_ifb_down", "del_ifb_link"}

\* The steps of apply_limit after its reconcile step, and what follows it in index.
PastIngressFilter ==
    {"ifb_root", "ifb_class_1", "ifb_class_10", "ifb_class_30", "ifb_filter",
     "ifb_filter_default", "extra_filter", "done"}

\* Request r has just returned from a call of delete_limit.
AfterDelete(r) == r.pc \in {"convert", "add_root", "reset_output"}

\* The apply request r is over and reported no error, and none of its commands failed.
ApplyOk(r) == r.pc = "done" /\ r.op = "apply" /\ Outcome(r) = "apply_ok"

Issued(r, cmd) == \E n \in 1..Len(r.log) : r.log[n].cmd = cmd

IssuedOk(r, cmd) == \E n \in 1..Len(r.log) : r.log[n].cmd = cmd /\ r.log[n].ok

\* Command a was issued, and before every issue of command b.
Before(r, a, b) ==
    \A n \in 1..Len(r.log) :
        r.log[n].cmd = b => \E m \in 1..(n - 1) : r.log[m].cmd = a

\* How many filters of fs match protocol number match into class flowid.
Count(fs, match, flowid) ==
    Cardinality({n \in 1..Len(fs) : fs[n].match = match /\ fs[n].flowid = flowid})

\* The numeric code of a protocol (spec section 6).
ProtoCode(protocol) == IF protocol = "tcp" THEN 6 ELSE 17

(***************************************************************************)
(* C1. Reconcile is idempotent: every call of delete_limit(iface) returns  *)
(* with all its commands reported successful and leaves iface without root *)
(* scheduler, classes, filters and ingress capture point; a call that      *)
(* follows another call directly (apply_limit's, after index's), and any   *)
(* call made with nothing to remove, changes nothing in the kernel.        *)
(***************************************************************************)
C1_AfterCall ==
    \A p \in Procs :
        AfterDelete(proc[p]) =>
            /\ kern.eg[proc[p].iface] = CleanDev
            /\ ~kern.ifb.exists
            /\ ~CmdFailed(proc[p])

C1_SecondCallNoOp ==
    \A p \in Procs :
        (/\ proc[p].pc \in DelPcs
         /\ \/ proc[p].ret = "apply_limit"
            \/ kern.eg[proc[p].iface] = CleanDev /\ ~kern.ifb.exists)
        => (kern' = kern /\ (proc'[p].pc \in DelPcs \/ AfterDelete(proc'[p])))

C1_ReconcileIdempotent == [](C1_AfterCall) /\ [][C1_SecondCallNoOp]_vars

\* The second of two calls in a row has returned, the first having removed a
\* full hierarchy (root, ingress rules, capture point, redirect device).
C1_Witness ==
    \E p \in Procs :
        /\ proc[p].pc = "add_root"
        /\ Len(proc[p].log) = 7
        /\ proc[p].log[2].cmd = "del_ing_filter"
        /\ proc[p].log[6].cmd = "del_ifb_link"
        /\ proc[p].log[7].cmd = "del_root"

(***************************************************************************)
(* C2. Validation precedes mutation: a request whose rate is unset         *)
(* (missing or empty) issues no command of delete_limit or apply_limit.    *)
(***************************************************************************)
RateUnset(form) == form.rate \in {Absent, ""}

C2_ValidationPrecedesMutation ==
    \A p \in Procs :
        (proc[p].op = "apply" /\ RateUnset(proc[p].form)) => proc[p].log = <<>>

(***************************************************************************)
(* C3. Whenever a command of the builder fails during an apply request,    *)
(* the response carries an error message naming the interface.             *)
(***************************************************************************)
C3_FailureReported ==
    \A p \in Procs :
        (proc[p].pc = "done" /\ proc[p].op = "apply" /\ CmdFailed(proc[p]))
        => (Len(proc[p].error_msg) = 2 /\ proc[p].error_msg[2] = proc[p].iface)

(***************************************************************************)
(* C4. Reconcile after partial failure: when the last apply on iface had a *)
(* builder command fail, a call of delete_limit(iface) returns with all    *)
(* its commands reported successful and leaves nothing the builder created *)
(* on iface: no root scheduler, class, emulation layer, filter, ingress    *)
(* capture point or ingress rule.                                          *)
(***************************************************************************)
C4_ReconcileAfterPartialFailure ==
    \A p \in Procs :
        (AfterDelete(proc[p]) /\ lastOp[proc[p].iface].what = "apply_failed")
        => /\ ~kern.eg[proc[p].iface].tree.root
           /\ kern.eg[proc[p].iface].tree.classes = {}
           /\ kern.eg[proc[p].iface].tree.netem = <<>>
           /\ kern.eg[proc[p].iface].tree.filters = <<>>
           /\ ~kern.eg[proc[p].iface].ingress
           /\ kern.eg[proc[p].iface].ingFilters = <<>>
           /\ \A n \in 1..Len(proc[p].log) : proc[p].log[n].ok

\* A reset has returned on an interface whose last apply failed at the creation
\* of a child class (step 4), and it had a root scheduler to remove.
C4_Witness ==
    \E p \in Procs :
        /\ proc[p].pc = "done"
        /\ proc[p].op = "reset"
        /\ lastOp[proc[p].iface].what = "apply_failed"
        /\ lastOp[proc[p].iface].failed = "add_class_10"
        /\ fails = 1

(***************************************************************************)
(* C5. Classification completeness: after a successful apply request with  *)
(* protocol tcp or udp, the egress device and the redirect device each     *)
(* carry exactly one rule matching the protocol's code into the treated    *)
(* class and exactly one catch-all rule into the passthrough class.        *)
(***************************************************************************)
C5_ClassificationCompleteness ==
    \A p \in Procs :
        (ApplyOk(proc[p]) /\ proc[p].protocol \in {"tcp", "udp"})
        => LET eg == kern.eg[proc[p].iface].tree.filters
               rd == kern.ifb.tree.filters
               code == ProtoCode(proc[p].protocol)
           IN /\ Count(eg, code, "1:11") = 1
              /\ Count(eg, 0, "1:30") = 1
              /\ Len(eg) = 2
              /\ Count(rd, code, "2:10") = 1
              /\ Count(rd, 0, "2:30") = 1
              /\ Len(rd) = 2

(***************************************************************************)
(* C6. Protocol all: after a successful apply with protocol all, the       *)
(* egress device and the redirect device each carry a single unconditional *)
(* rule into the treated class and no rule into the passthrough class.     *)
(***************************************************************************)
C6_ProtocolAll ==
    \A p \in Procs :
        (ApplyOk(proc[p]) /\ proc[p].protocol = "all")
        => /\ kern.eg[proc[p].iface].tree.filters =
                  << [prio |-> 1, match |-> 0, flowid |-> "1:11"] >>
           /\ kern.ifb.tree.filters = << [prio |-> 1, match |-> 0, flowid |-> "2:10"] >>

C6_Witness ==
    \E p \in Procs :
        /\ ApplyOk(proc[p])
        /\ proc[p].protocol = "all"
        /\ IssuedOk(proc[p], "add_filter")
        /\ IssuedOk(proc[p], "ifb_filter")

(***************************************************************************)
(* C7. The shared redirect device survives the reconcile of another        *)
(* interface: when delete_limit(A) returns while an interface B that was   *)
(* shaped still redirects its ingress traffic to ifb0, ifb0 exists.        *)
(***************************************************************************)
C7_RedirectDeviceSurvives ==
    \A p \in Procs :
        AfterDelete(proc[p]) =>
            \A b \in Ifaces \ {proc[p].iface} :
                (lastOp[b].what = "apply_ok" /\ kern.eg[b].ingFilters # <<>>)
                => kern.ifb.exists

(***************************************************************************)
(* C8. Round trip: after a successful apply of a policy with protocol tcp  *)
(* or udp, parse_tc_config(iface) returns the policy's rate, loss,         *)
(* duplicate and protocol (a value of zero read back as unset).            *)
(***************************************************************************)
\* What a form value reads back as when the round trip is exact.
ReadBack(s) == IF s \in {"0", Absent} THEN "" ELSE s

C8_RoundTrip ==
    \A p \in Procs :
        (ApplyOk(proc[p]) /\ proc[p].protocol \in {"tcp", "udp"})
        => LET c == parse_tc_config(kern, proc[p].iface)
               f == proc[p].form
           IN /\ c.rate = f.rate
              /\ c.loss = ReadBack(f.loss)
              /\ c.duplicate = ReadBack(f.duplicate)
              /\ c.delay = ReadBack(f.delay)
              /\ c.protocol = f.protocol

(***************************************************************************)
(* C9. Optional refinements: an apply request with an interface and a rate *)
(* and without loss, duplicate and delay is not reported as an error and,  *)
(* its commands succeeding, builds the rate-limiting hierarchy with an     *)
(* emulation layer without loss, duplication or delay.                     *)
(***************************************************************************)
C9_OptionalRefinements ==
    \A p \in Procs :
        (/\ proc[p].pc = "done"
         /\ proc[p].op = "apply"
         /\ TcRateOk(proc[p].form.rate)
         /\ proc[p].form.loss = Absent
         /\ proc[p].form.duplicate = Absent
         /\ proc[p].form.delay = Absent)
        => /\ proc[p].error_msg = <<>>
           /\ fails = 0 =>
                LET t == kern.eg[proc[p].iface].tree IN
                /\ t.root
                /\ \A id \in {"1:1", "1:10", "1:11", "1:30"} : HasClass(t, id)
                /\ t.netem = << [parent |-> "1:11", delay |-> 0, loss |-> 0, duplicate |-> 0] >>

(***************************************************************************)
(* C10. Within one apply the command that brings the redirect device up is *)
(* issued before the command that installs the ingress redirect rule, the  *)
(* rule is installed only on an existing device, which is up if the up     *)
(* command succeeded, and the creation command is issued exactly when the  *)
(* existence check found the device absent.                                *)
(***************************************************************************)
C10_EnsureBeforeRedirect ==
    \A p \in Procs :
        LET r == proc[p] IN
        /\ Before(r, "link_up", "add_ing_filter")
        /\ Before(r, "modprobe", "link_up")
        /\ Issued(r, "link_add") => (~r.ifbSeen /\ Before(r, "link_add", "link_up"))
        /\ (Issued(r, "link_up") /\ ~r.ifbSeen) => Issued(r, "link_add")
        /\ (r.pc \in PastIngressFilter /\ IssuedOk(r, "add_ing_filter"))
           => /\ kern.ifb.exists
              /\ IssuedOk(r, "link_up") => kern.ifb.up

\* The redirect rule is installed in an apply that found the device present and
\* issued no create.
C10_Witness ==
    \E p \in Procs :
        /\ proc[p].pc \in PastIngressFilter
        /\ IssuedOk(proc[p], "add_ing_filter")
        /\ proc[p].ifbSeen
        /\ ~Issued(proc[p], "link_add")
        /\ kern.ifb.up

(***************************************************************************)
(* C12. Reset always reports success: a reset request ends with the        *)
(* success message naming its interface and with no error, whatever the    *)
(* kernel held, also when there was nothing to remove and when delete      *)
(* commands exited non-zero.                                               *)
(***************************************************************************)
C12_ResetReportsSuccess ==
    \A p \in Procs :
        (proc[p].pc = "done" /\ proc[p].op = "reset")
        => /\ proc[p].output = <<"Traffic shaping reset on", proc[p].iface>>
           /\ proc[p].error_msg = <<>>

\* A reset has ended in which one delete command exited non-zero (no root
\* scheduler to remove) and another removed something.
C12_Witness ==
    \E p \in Procs :
        /\ proc[p].pc = "done"
        /\ proc[p].op = "reset"
        /\ \E n \in 1..Len(proc[p].log) : ~proc[p].log[n].rc
        /\ \E n \in 1..Len(proc[p].log) : proc[p].log[n].rc

(***************************************************************************)
(* C13. The state reader never fails: a show request ends with a policy    *)
(* record holding rate, loss, duplicate, protocol and delay; when          *)
(* something was raised inside parse_tc_config all five are unset; a field *)
(* whose pattern is not in the output it is read from is unset.            *)
(***************************************************************************)
\* key is followed in out by a word the pattern of kind accepts.
PatternFound(out, key, kind) ==
    \E n \in 1..(Len(out) - 1) : out[n] = key /\ Group(kind, out[n + 1]) # ""

C13_ReaderNeverFails ==
    \A p \in Procs :
        (proc[p].pc = "done" /\ proc[p].op = "show")
        => LET r == proc[p]
               c == r.config
           IN /\ DOMAIN c = {"rate", "loss", "duplicate", "protocol", "delay"}
              /\ r.raised => \A f \in DOMAIN c : c[f] = ""
              /\ ~r.raised =>
                    /\ ~PatternFound(r.class_output, "rate", "word") => c.rate = ""
                    /\ ~PatternFound(r.qdisc_output, "loss", "pct") => c.loss = ""
                    /\ ~PatternFound(r.qdisc_output, "duplicate", "pct") => c.duplicate = ""
                    /\ ~PatternFound(r.qdisc_output, "delay", "delay") => c.delay = ""
                    /\ ~HasPair(r.filter_output, "protocol", "ip") => c.protocol = ""
                    /\ kern.eg[r.iface].tree.classes = {} => c.rate = ""
                    /\ kern.eg[r.iface].tree.netem = <<>> =>
                           (c.loss = "" /\ c.duplicate = "" /\ c.delay = "")
                    /\ kern.eg[r.iface].tree.filters = <<>> => c.protocol = ""

\* A show request has ended after an exception, on an interface that carries a
\* hierarchy with classes and an emulation layer.
C13_Witness ==
    \E p \in Procs :
        /\ proc[p].pc = "done"
        /\ proc[p].op = "show"
        /\ proc[p].raised
        /\ kern.eg[proc[p].iface].tree.classes # {}
        /\ kern.eg[proc[p].iface].tree.netem # <<>>

(***************************************************************************)
(* C14. Builder order: within a request, apply_limit's first creating      *)
(* command directly follows the commands of its reconcile step, and every  *)
(* creating command is issued after the command that creates the parent    *)
(* or target it names: root scheduler, root-bounding class, child classes, *)
(* emulation layer on the treated class, classification rules, on the      *)
(* egress device and on the redirect device.                               *)
(***************************************************************************)
\* The commands of delete_limit.
DelCmds ==
    {"del_root", "del_ing_filter", "del_ingress", "del_ifb_root", "del_ifb_down", "del_ifb_link"}

\* The creating commands of apply_limit, in the order of src/app.py:241-306.
FixedOrder ==
    <<"add_root", "add_class_1", "add_class_10", "add_class_30", "add_class_11",
      "add_netem", "add_filter", "add_filter_default", "modprobe", "link_add",
      "link_up", "add_ingress", "add_ing_filter", "ifb_root", "ifb_class_1",
      "ifb_class_10", "ifb_class_30", "ifb_filter", "ifb_filter_default">>

\* Those of them a request with this protocol issues, the redirect device
\* having been found present (seen) or not.
OrderFor(protocol, seen) ==
    LET Has(c) == /\ c \in {"add_filter_default", "ifb_filter_default"}
                      => protocol \in {"tcp", "udp"}
                  /\ c = "link_add" => ~seen
    IN SelectSeq(FixedOrder, Has)

\* The creating commands of apply_limit in the log of request r.
CreatingCmds(r) ==
    LET IsCreating(e) == e.cmd \notin DelCmds \cup {"extra_filter"}
        sel == SelectSeq(r.log, IsCreating)
    IN [n \in 1..Len(sel) |-> sel[n].cmd]

Prefix(s, t) == Len(s) <= Len(t) /\ \A n \in 1..Len(s) : s[n] = t[n]

\* The pairs <<a, b>> where command b names what command a creates: its
\* parent (a scheduler, a class) or its target (the class a rule points to, the
\* device a scheduler sits on).
NeedsFirst ==
    { <<"add_root", "add_class_1">>, <<"add_class_1", "add_class_10">>,
      <<"add_class_1", "add_class_30">>, <<"add_class_1", "add_class_11">>,
      <<"add_class_11", "add_netem">>, <<"add_root", "add_filter">>,
      <<"add_class_11", "add_filter">>, <<"add_netem", "add_filter">>,
      <<"add_class_30", "add_filter_default">>, <<"add_ingress", "add_ing_filter">>,
      <<"link_up", "add_ing_filter">>, <<"link_add", "ifb_root">>,
      <<"ifb_root", "ifb_class_1">>, <<"ifb_class_1", "ifb_class_10">>,
      <<"ifb_class_1", "ifb_class_30">>, <<"ifb_class_10", "ifb_filter">>,
      <<"ifb_class_30", "ifb_filter_default">> }

\* Where command c stands in the fixed order.
PosOf(c) == CHOOSE n \in 1..Len(FixedOrder) : FixedOrder[n] = c

\* The fixed order puts every command after the one creating what it names.
C14_ParentsFirst == \A d \in NeedsFirst : PosOf(d[1]) < PosOf(d[2])

C14_BuilderOrder ==
    /\ C14_ParentsFirst
    /\ \A p \in Procs :
           LET r == proc[p] IN
           /\ \A n \in 1..Len(r.log) :
                  r.log[n].cmd = "add_root" =>
                      /\ n > 1
                      /\ \A m \in 1..(n - 1) : r.log[m].cmd \in DelCmds
           /\ Prefix(CreatingCmds(r), OrderFor(r.protocol, r.ifbSeen))

\* An apply with protocol tcp or udp has issued its last creating command on the
\* redirect device, every command before it having succeeded.
C14_Witness ==
    \E p \in Procs :
        /\ proc[p].pc = "extra_filter"
        /\ IssuedOk(proc[p], "add_filter_default")
        /\ IssuedOk(proc[p], "ifb_filter_default")
        /\ ~CmdFailed(proc[p])

(***************************************************************************)
(* C15. Equivalent ingress shaping: after a successful apply the treated   *)
(* class of the redirect device carries an emulation layer with the same   *)
(* delay, loss and duplicate as the one on the egress device's treated     *)
(* class.                                                                  *)
(***************************************************************************)
C15_EquivalentIngressShaping ==
    \A p \in Procs :
        ApplyOk(proc[p])
        => LET eg == kern.eg[proc[p].iface].tree.netem
               rd == kern.ifb.tree.netem
           IN /\ eg # <<>>
              /\ rd # <<>>
              /\ HasClass(kern.ifb.tree, rd[1].parent)
              /\ rd[1].delay = eg[1].delay
              /\ rd[1].loss = eg[1].loss
              /\ rd[1].duplicate = eg[1].duplicate

(***************************************************************************)
(* C16. Reconcile steps are conditional and ordered: delete_limit issues   *)
(* the ingress rule removal and then the capture point removal, only if    *)
(* its test found the ingress capture point; it issues the redirect        *)
(* device's scheduler removal, link down and device deletion, in that      *)
(* order, only if its test found the device; when neither is found the     *)
(* only command of the call is the root scheduler removal.                 *)
(***************************************************************************)
\* The order of the commands of a call, as the request's log shows it.
C16_Ordered ==
    \A p \in Procs :
        LET log == proc[p].log IN
        \A n \in 1..Len(log) :
            /\ log[n].cmd = "del_ing_filter" => (n > 1 /\ log[n - 1].cmd = "del_root")
            /\ log[n].cmd = "del_ingress" => (n > 1 /\ log[n - 1].cmd = "del_ing_filter")
            /\ log[n].cmd = "del_ifb_root" =>
                   (n > 1 /\ log[n - 1].cmd \in {"del_root", "del_ingress"})
            /\ log[n].cmd = "del_ifb_down" => (n > 1 /\ log[n - 1].cmd = "del_ifb_root")
            /\ log[n].cmd = "del_ifb_link" => (n > 1 /\ log[n - 1].cmd = "del_ifb_down")
            /\ (n < Len(log) /\ log[n].cmd = "del_ing_filter") => log[n + 1].cmd = "del_ingress"
            /\ (n < Len(log) /\ log[n].cmd = "del_ifb_root") => log[n + 1].cmd = "del_ifb_down"
            /\ (n < Len(log) /\ log[n].cmd = "del_ifb_down") => log[n + 1].cmd = "del_ifb_link"

\* What each test of the call lets through.
C16_Conditional ==
    \A p \in Procs :
        LET r == proc[p] IN
        /\ r.pc = "del_chk_ingress" =>
               /\ proc'[p].log = r.log
               /\ proc'[p].pc = "del_ing_filter" <=> kern.eg[r.iface].ingress
               /\ proc'[p].pc = "del_chk_ifb" <=> ~kern.eg[r.iface].ingress
        /\ r.pc = "del_chk_ifb" =>
               /\ proc'[p].log = r.log
               /\ proc'[p].pc = "del_ifb_root" <=> kern.ifb.exists
               /\ AfterDelete(proc'[p]) <=> ~kern.ifb.exists
        /\ (r.pc = "del_chk_ifb" /\ ~kern.ifb.exists /\ r.log # <<>>
            /\ r.log[Len(r.log)].cmd = "del_root")
           => /\ AfterDelete(proc'[p])
              /\ proc'[p].log = r.log

C16_ReconcileSteps == [](C16_Ordered) /\ [][C16_Conditional]_vars

\* A reset has returned from delete_limit having found the redirect device and
\* no ingress capture point: it issued the three device commands and neither
\* of the ingress commands.
C16_Witness ==
    \E p \in Procs :
        /\ proc[p].pc = "reset_output"
        /\ Len(proc[p].log) = 4
        /\ proc[p].log[2].cmd = "del_ifb_root"
        /\ proc[p].log[4].cmd = "del_ifb_link"

(***************************************************************************)
(* C17. Emulation parameters: the netem command of an apply carries a      *)
(* delay, loss or duplicate parameter exactly when the policy's value for  *)
(* it is present and greater than zero, and then with that value; a value  *)
(* of zero or an absent one is left out, never written as zero.            *)
(***************************************************************************)
\* The policy value s is present and greater than zero.
PolicyPositive(s) == s \notin {Absent, "", "0"}

C17_EmulationParameters ==
    \A p \in Procs :
        \A n \in 1..Len(proc[p].log) :
            proc[p].log[n].cmd = "add_netem" =>
                LET a == proc[p].log[n].args
                    f == proc[p].form
                IN \A x \in {"delay", "loss", "duplicate"} :
                       /\ a[x] # "" <=> PolicyPositive(f[x])
                       /\ a[x] # "" => TcNum(a[x]) = Float(f[x])
                       /\ a[x] # "0.0"

\* A netem command was issued with a loss and, the policy's duplicate being
\* zero and its delay zero or absent, with neither of the other two.
C17_Witness ==
    \E p \in Procs :
        \E n \in 1..Len(proc[p].log) :
            /\ proc[p].log[n].cmd = "add_netem"
            /\ proc[p].log[n].ok
            /\ proc[p].log[n].args.loss = "1.0"
            /\ proc[p].log[n].args.duplicate = ""
            /\ proc[p].log[n].args.delay = ""
            /\ proc[p].form.duplicate = "0"

(***************************************************************************)
(* The reader on filter outputs of its own: parse_tc_config is at its      *)
(* parsing step (src/app.py:147) with any filter output of at most         *)
(* MaxWords words of FilterVocab, or with what tc prints for a filter set  *)
(* the builder installs.                                                   *)
(***************************************************************************)
FilterVocab == {"protocol", "ip", "0x06", "0x11", "u32"}

RECURSIVE WordSeqs(_)
WordSeqs(n) ==
    IF n = 0
    THEN {<<>>}
    ELSE LET shorter == WordSeqs(n - 1) IN
         shorter \cup {Append(s, w) : s \in {t \in shorter : Len(t) = n - 1}, w \in FilterVocab}

\* The filters apply_limit installs on the egress device for a protocol.
BuiltFilters(protocol) ==
    IF HasCatchAll(protocol)
    THEN TcFilterAdd(FirstFilter([eg |-> [i \in Ifaces |-> [CleanDev EXCEPT !.tree.root = TRUE]],
                                  ifb |-> NoIfb, module |-> FALSE],
                                 "eth0", protocol, "1:11").k,
                     "eth0", 2, 0, "1:30").k.eg["eth0"].tree.filters
    ELSE FirstFilter([eg |-> [i \in Ifaces |-> [CleanDev EXCEPT !.tree.root = TRUE]],
                      ifb |-> NoIfb, module |-> FALSE],
                     "eth0", protocol, "1:11").k.eg["eth0"].tree.filters

FilterOutputs ==
    WordSeqs(MaxWords) \cup {FilterShowFrom(BuiltFilters(pr), 1) : pr \in {"all", "tcp", "udp"}}

InitParse ==
    /\ kern = [eg |-> [i \in Ifaces |-> CleanDev], ifb |-> NoIfb, module |-> FALSE]
    /\ fails = 0
    /\ lastOp = [i \in Ifaces |-> [what |-> "none", failed |-> ""]]
    /\ \E out \in FilterOutputs :
           proc = [p \in Procs |->
                      IF p \in Workers
                      THEN [Idle EXCEPT !.pc = "parse", !.op = "show", !.iface = "eth0",
                                        !.filter_output = out]
                      ELSE Idle]

NextParse ==
    \E p \in Workers :
        \/ parse_tc_config_parse(p)
        \/ respond(p)

SpecParse == InitParse /\ [][NextParse]_vars

(***************************************************************************)
(* C18. Protocol recovery: parse_tc_config reports tcp when the filter     *)
(* output mentions IP protocol matching and holds the TCP token 0x06       *)
(* (also when the UDP token is there too), else udp when it holds the UDP  *)
(* token 0x11, else unset; the filters built for protocol all read back as *)
(* unset.                                                                  *)
(***************************************************************************)
C18_ProtocolRecovery ==
    \A p \in Procs :
        (proc[p].pc = "done" /\ proc[p].op = "show" /\ ~proc[p].raised)
        => LET out == proc[p].filter_output
               ipm == \E n \in 1..(Len(out) - 1) : out[n] = "protocol" /\ out[n + 1] = "ip"
               tcp == \E n \in 1..Len(out) : out[n] = "0x06"
               udp == \E n \in 1..Len(out) : out[n] = "0x11"
               got == proc[p].config.protocol
           IN /\ (ipm /\ tcp) => got = "tcp"
              /\ (ipm /\ ~tcp /\ udp) => got = "udp"
              /\ (~ipm \/ (~tcp /\ ~udp)) => got = ""
              /\ out = FilterShowFrom(BuiltFilters("all"), 1) => got = ""

\* The reader has ended on an output that mentions IP protocol matching and
\* holds both tokens, the UDP one first.
C18_Witness ==
    \E p \in Procs :
        /\ proc[p].pc = "done"
        /\ proc[p].op = "show"
        /\ proc[p].filter_output = <<"0x11", "protocol", "ip", "0x06">>
        /\ proc[p].config.protocol = "tcp"

(***************************************************************************)
(* C19. No rollback: once apply_limit has issued a creating command, the   *)
(* request issues no delete command any more; no step outside delete_limit *)
(* removes an object from the kernel, so what an earlier command created   *)
(* remains; and an apply that was not rejected issues all its creating     *)
(* commands in the one fixed order, whichever of them failed.              *)
(***************************************************************************)
C19_NoDeleteAfterCreate ==
    \A p \in Procs :
        \A n \in 2..Len(proc[p].log) :
            proc[p].log[n].cmd \in DelCmds => proc[p].log[n - 1].cmd \in DelCmds

C19_FixedOrder ==
    \A p \in Procs :
        (proc[p].pc \in {"extra_filter", "done"} /\ proc[p].op = "apply"
         /\ proc[p].error_msg = <<>>)
        => CreatingCmds(proc[p]) = OrderFor(proc[p].protocol, proc[p].ifbSeen)

C19_ObjectsRemain ==
    (\A p \in Procs : proc[p].pc \notin DelPcs)
    => /\ \A i \in Ifaces :
              /\ kern.eg[i].tree.root => kern'.eg[i].tree.root
              /\ kern.eg[i].tree.classes \subseteq kern'.eg[i].tree.classes
              /\ Prefix(kern.eg[i].tree.netem, kern'.eg[i].tree.netem)
              /\ Prefix(kern.eg[i].tree.filters, kern'.eg[i].tree.filters)
              /\ kern.eg[i].ingress => kern'.eg[i].ingress
              /\ Prefix(kern.eg[i].ingFilters, kern'.eg[i].ingFilters)
       /\ kern.ifb.exists => kern'.ifb.exists
       /\ kern.ifb.tree.root => kern'.ifb.tree.root
       /\ kern.ifb.tree.classes \subseteq kern'.ifb.tree.classes
       /\ Prefix(kern.ifb.tree.filters, kern'.ifb.tree.filters)

C19_NoRollback ==
    [](C19_NoDeleteAfterCreate /\ C19_FixedOrder) /\ [][C19_ObjectsRemain]_vars

\* An apply has ended in which the creation of class 1:10 failed: the root
\* scheduler and class 1:1 created before it are still there, and the commands
\* after it were issued down to the last filter of the redirect device.
C19_Witness ==
    \E p \in Procs :
        /\ proc[p].pc = "done"
        /\ proc[p].op = "apply"
        /\ FirstFailed(proc[p]) = "add_class_10"
        /\ kern.eg[proc[p].iface].tree.root
        /\ HasClass(kern.eg[proc[p].iface].tree, "1:1")
        /\ IssuedOk(proc[p], "ifb_filter")

(***************************************************************************)
(* Runs in which a request that has started is carried on: the handler     *)
(* runs its commands one after the other and each command returns          *)
(* (subprocess.run waits for it).                                          *)
(***************************************************************************)
\* A step of a request in flight, or the answer to a finished one.
Step ==
    \E p \in Workers :
        \/ index_convert(p)
        \/ index_extra_filter(p)
        \/ delete_limit(p)
        \/ apply_limit(p)
        \/ reset_output(p)
        \/ parse_tc_config_stat(p)
        \/ parse_tc_config_parse(p)
        \/ parse_tc_config_except(p)
        \/ respond(p)

FairSpec == Spec /\ WF_vars(Step)

(***************************************************************************)
(* C20. Run to completion: provided each command returns, every request    *)
(* that has started an apply, reconcile or show sequence finishes, having  *)
(* issued a bounded number of commands (two calls of delete_limit, the     *)
(* creating commands of apply_limit, index's filter command), whatever     *)
(* subset of them failed.                                                  *)
(***************************************************************************)
C20_BoundedCommands ==
    \A p \in Procs : Len(proc[p].log) <= 2 * Cardinality(DelCmds) + Len(FixedOrder) + 1

C20_RunToCompletion ==
    /\ [](C20_BoundedCommands)
    /\ \A p \in Procs : InFlight(proc[p]) ~> (proc[p].pc = "done")

\* An apply is over in which a command failed and every creating command
\* was issued.
C20_Witness ==
    \E p \in Procs :
        /\ proc[p].pc = "done"
        /\ proc[p].op = "apply"
        /\ CmdFailed(proc[p])
        /\ Len(CreatingCmds(proc[p])) >= Len(FixedOrder) - 1

(***************************************************************************)
(* Overlapping requests: the app serves requests on threads of one         *)
(* process and takes no lock (src/app.py:235-320 hold none), so the        *)
(* commands of two requests may interleave. Two apply requests with valid  *)
(* policies arrive before any request has been answered; no command fails  *)
(* for a reason outside the kernel state. Both requests name the same      *)
(* interface, each with a policy of its own; both policies have protocol   *)
(* all, so the catch-all filter commands (lines 271, 304) are not reached. *)
(***************************************************************************)
ConcIface == "eth0"

ConcPolicy(p) ==
    IF p = 1
    THEN MkForm("10mbit", "1", "2", Absent, "all")
    ELSE MkForm("1mbit", "0", "0", "20", "all")

InitConc ==
    /\ kern = [eg |-> [i \in Ifaces |-> CleanDev], ifb |-> NoIfb, module |-> FALSE]
    /\ proc = [p \in Procs |-> Idle]
    /\ fails = MaxFail
    /\ lastOp = [i \in Ifaces |-> [what |-> "none", failed |-> ""]]

NoneAnswered == \A i \in Ifaces : lastOp[i].what = "none"

\* The steps of apply_limit for a protocol other than tcp and udp (the else
\* branches of lines 275 and 305).
apply_limit_single_rule(p) ==
    \/ apply_limit_root(p)
    \/ apply_limit_class_1(p)
    \/ apply_limit_class_10(p)
    \/ apply_limit_class_30(p)
    \/ apply_limit_class_11(p)
    \/ apply_limit_netem(p)
    \/ apply_limit_filter(p)
    \/ apply_limit_modprobe(p)
    \/ apply_limit_check_ifb(p)
    \/ apply_limit_link_add(p)
    \/ apply_limit_link_up(p)
    \/ apply_limit_ingress(p)
    \/ apply_limit_ingress_filter(p)
    \/ apply_limit_ifb_root(p)
    \/ apply_limit_ifb_class_1(p)
    \/ apply_limit_ifb_class_10(p)
    \/ apply_limit_ifb_class_30(p)
    \/ apply_limit_ifb_filter(p)

NextConc ==
    \E p \in Procs :
        \/ NoneAnswered /\ StartApply(p, ConcIface, ConcPolicy(p))
        \/ index_convert(p)
        \/ index_extra_filter(p)
        \/ delete_limit(p)
        \/ apply_limit_single_rule(p)
        \/ respond(p)

SpecConc == InitConc /\ [][NextConc]_vars

\* What one apply request with form f on interface i, running alone with every
\* command succeeding, leaves on the interface and on the redirect device:
\* the commands of src/app.py:241-306 and 403-405 in their order.
Built(i, f) ==
    LET rate == RateStr(FormGet(f, "rate", None))
        pr == FormGet(f, "protocol", "all")
        cmd == NetemCmd(Float(FormGet(f, "delay", "0")), Float(FormGet(f, "loss", "")),
                        Float(FormGet(f, "duplicate", "")))
        k0 == [eg |-> [j \in Ifaces |-> CleanDev], ifb |-> NoIfb, module |-> FALSE]
        k1 == TcQdiscAddRoot(k0, i).k
        k2 == TcClassAdd(k1, i, "root", "1:1", rate).k
        k3 == TcClassAdd(k2, i, "1:1", "1:10", rate).k
        k4 == TcClassAdd(k3, i, "1:1", "1:30", "1000mbit").k
        k5 == TcClassAdd(k4, i, "1:1", "1:11", rate).k
        k6 == TcNetemAdd(k5, i, "1:11", cmd.delay, cmd.loss, cmd.duplicate).k
        k7 == FirstFilter(k6, i, pr, "1:11").k
        k8 == IF HasCatchAll(pr) THEN TcFilterAdd(k7, i, 2, 0, "1:30").k ELSE k7
        k9 == Modprobe(k8).k
        k10 == IF IfbShown(k9) THEN k9 ELSE IpLinkAdd(k9).k
        k11 == IpLinkSet(k10, TRUE).k
        k12 == TcIngressAdd(k11, i).k
        k13 == TcIngressFilterAdd(k12, i, IngressMatch(pr)).k
        k14 == TcQdiscAddRoot(k13, "ifb0").k
        k15 == TcClassAdd(k14, "ifb0", "root", "2:1", rate).k
        k16 == TcClassAdd(k15, "ifb0", "2:1", "2:10", rate).k
        k17 == TcClassAdd(k16, "ifb0", "2:1", "2:30", "1000mbit").k
        k18 == FirstFilter(k17, "ifb0", pr, "2:10").k
        k19 == IF HasCatchAll(pr) THEN TcFilterAdd(k18, "ifb0", 2, 0, "2:30").k ELSE k18
        k20 == IF Lower(pr) \in {"tcp", "udp"}
               THEN TcFilterAdd(k19, i, 1, protocol_number(pr), "1:11").k
               ELSE k19
    IN [eg |-> k20.eg[i], ifb |-> k20.ifb]

\* Interface i and the redirect device hold what a sequential apply of f builds.
Corresponds(k, i, f) == k.eg[i] = Built(i, f).eg /\ k.ifb = Built(i, f).ifb

(***************************************************************************)
(* C11. Overlapping applies are not serialized: two apply requests on the  *)
(* same interface whose commands interleave can both end, no command       *)
(* reported failed, with the interface and the redirect device holding a   *)
(* hierarchy that is neither what a sequential apply of the first policy   *)
(* builds nor what one of the second builds. Only an overlap does this: an *)
(* apply during which no other request was in flight ends with exactly the *)
(* hierarchy of its policy.                                                *)
(***************************************************************************)
C11_AloneBuildsItsPolicy ==
    \A p \in Procs :
        (/\ proc[p].pc # "done"
         /\ proc'[p].pc = "done"
         /\ proc'[p].op = "apply"
         /\ ~proc'[p].overlap)
        => /\ Corresponds(kern', proc'[p].iface, proc'[p].form)
           /\ ~CmdFailed(proc'[p])

C11_NotSerialized == [][C11_AloneBuildsItsPolicy]_vars

\* Two overlapping applies of different policies on one interface have both
\* ended with no command reported failed, and what the kernel holds
\* corresponds to neither policy.
C11_Witness ==
    \E p, q \in Procs :
        /\ p # q
        /\ proc[p].pc = "done" /\ proc[q].pc = "done"
        /\ proc[p].op = "apply" /\ proc[q].op = "apply"
        /\ proc[p].iface = proc[q].iface
        /\ proc[p].form # proc[q].form
        /\ proc[p].overlap /\ proc[q].overlap
        /\ ~CmdFailed(proc[p]) /\ ~CmdFailed(proc[q])
        /\ ~Corresponds(kern, proc[p].iface, proc[p].form)
        /\ ~Corresponds(kern, proc[q].iface, proc[q].form)

(***************************************************************************)
(* C21. Per-interface isolation: no step of a request on interface B       *)
(* (delete_limit(B), apply_limit(B, ...), index's own filter command)      *)
(* changes the root scheduler, classes, emulation layer, egress filters or *)
(* ingress capture point of another interface A, and what parse_tc_config  *)
(* reads for A is the same before and after the step.                      *)
(***************************************************************************)
C21_OtherInterfaceUnchanged ==
    \A p \in Procs :
        proc[p].pc # "idle" =>
            \A a \in Ifaces \ {proc[p].iface} :
                /\ kern'.eg[a].tree = kern.eg[a].tree
                /\ kern'.eg[a].ingress = kern.eg[a].ingress
                /\ parse_tc_config(kern', a) = parse_tc_config(kern, a)

C21_Isolation == [][C21_OtherInterfaceUnchanged]_vars

\* An apply on one interface has ended, having removed and rebuilt that
\* interface's hierarchy, while another interface carries the hierarchy and
\* the capture point of its own successful apply.
C21_Witness ==
    \E p \in Procs :
        /\ ApplyOk(proc[p])
        /\ proc[p].log[1].rc
        /\ \E a \in Ifaces \ {proc[p].iface} :
               /\ lastOp[a].what = "apply_ok"
               /\ kern.eg[a].tree.root
               /\ kern.eg[a].tree.netem # <<>>
               /\ kern.eg[a].ingress

(***************************************************************************)
(* C22. A rejected apply leaves the kernel untouched: when an apply        *)
(* request that ends with a conversion error follows a successful apply on *)
(* the same interface, the interface still carries its root scheduler, its *)
(* classes, its emulation layer and its ingress capture point.             *)
(***************************************************************************)
C22_RejectedApplyLeavesKernel ==
    \A p \in Procs :
        (/\ proc[p].pc = "done"
         /\ proc[p].op = "apply"
         /\ proc[p].error_msg # <<>>
         /\ lastOp[proc[p].iface].what = "apply_ok")
        => /\ kern.eg[proc[p].iface].tree.root
           /\ kern.eg[proc[p].iface].tree.classes # {}
           /\ kern.eg[proc[p].iface].tree.netem # <<>>
           /\ kern.eg[proc[p].iface].ingress

(***************************************************************************)
(* C23. Once index has recorded an error for an apply request (its except  *)
(* branch), the request issues no further command that changes the         *)
(* kernel: the filter command of index is not issued.                      *)
(***************************************************************************)
C23_NoCommandAfterError ==
    \A p \in Procs :
        proc[p].error_msg # <<>> => ~Issued(proc[p], "extra_filter")

(***************************************************************************)
(* C25. The redirect device serves every shaped interface with its own     *)
(* policy: after a successful apply on B, an interface A that was shaped   *)
(* before and still redirects its ingress traffic finds on the redirect    *)
(* device a treated class with the rate of A's policy and a first rule     *)
(* matching the protocol of A's policy.                                    *)
(***************************************************************************)
C25_RedirectServesEachInterface ==
    \A p \in Procs :
        ApplyOk(proc[p]) =>
            \A a \in Ifaces \ {proc[p].iface} :
                (lastOp[a].what = "apply_ok" /\ kern.eg[a].ingFilters # <<>>)
                => /\ kern.ifb.exists
                   /\ \E c \in kern.ifb.tree.classes :
                          /\ c.id = "2:10"
                          /\ \E d \in kern.eg[a].tree.classes :
                                 d.id = "1:10" /\ d.rate = c.rate
                   /\ kern.ifb.tree.filters # <<>>
                   /\ kern.ifb.tree.filters[1].match = kern.eg[a].ingFilters[1].match

(***************************************************************************)
(* C24. Apply does not depend on prior state: when an apply request ends   *)
(* with every command reported successful, the interface and the redirect  *)
(* device hold exactly what the policy's commands build on a clean kernel, *)
(* whatever was there before (nothing, a full hierarchy, or the partial    *)
(* hierarchy of a failed apply); so applying a policy twice gives the      *)
(* state of applying it once.                                              *)
(***************************************************************************)
C24_ApplyIgnoresPriorState ==
    \A p \in Procs :
        ApplyOk(proc[p]) => Corresponds(kern, proc[p].iface, proc[p].form)

\* A successful apply has ended on an interface whose previous apply had
\* failed part of the way, and it had a root scheduler and the redirect device
\* to remove first.
C24_Witness ==
    \E p \in Procs :
        /\ ApplyOk(proc[p])
        /\ lastOp[proc[p].iface].what = "apply_failed"
        /\ proc[p].log[1].rc
        /\ Issued(proc[p], "del_ifb_link")

(***************************************************************************)
(* C26. No dangling references after a successful build: when an apply     *)
(* ends with every command reported successful, on the egress device and   *)
(* on the redirect device the root scheduler's default class (30) exists,  *)
(* every classification rule names an existing class, and the emulation    *)
(* layer sits on class 1:11, which exists.                                 *)
(***************************************************************************)
\* "htb default 30" under handle 1: (line 241) and under handle 2: (line 297).
DefaultClass(dev) == IF dev = "ifb0" THEN "2:30" ELSE "1:30"

\* Tree t of device dev has its default class and the class of every rule.
NoDangling(t, dev) ==
    /\ t.root
    /\ HasClass(t, DefaultClass(dev))
    /\ \A c \in t.classes : c.parent = "root" \/ HasClass(t, c.parent)
    /\ t.filters # <<>>
    /\ \A n \in 1..Len(t.filters) : HasClass(t, t.filters[n].flowid)
    /\ \A n \in 1..Len(t.netem) : HasClass(t, t.netem[n].parent)

C26_NoDanglingReferences ==
    \A p \in Procs :
        ApplyOk(proc[p])
        => /\ NoDangling(kern.eg[proc[p].iface].tree, proc[p].iface)
           /\ NoDangling(kern.ifb.tree, "ifb0")
           /\ Len(kern.eg[proc[p].iface].tree.netem) = 1
           /\ kern.eg[proc[p].iface].tree.netem[1].parent = "1:11"

\* A successful apply with protocol tcp or udp has ended: both devices carry
\* a rule into the treated class and a catch-all rule into the default class.
C26_Witness ==
    \E p \in Procs :
        /\ ApplyOk(proc[p])
        /\ proc[p].protocol \in {"tcp", "udp"}
        /\ Len(kern.ifb.tree.filters) = 2
        /\ kern.ifb.tree.filters[2].flowid = "2:30"
        /\ Len(kern.eg[proc[p].iface].tree.filters) >= 2

====
